---- MODULE Spec2Model ----
(***************************************************************************)
(* Election (src/src/election.ts): leader election on a linearizable       *)
(* key-value store with revisions, conditional transactions, leases and    *)
(* watches.  Every session is one Election object; one step of the model   *)
(* is the code of a handler between two awaits, or the store's execution   *)
(* of one request.                                                         *)
(***************************************************************************)
EXTENDS Integers, Sequences, FiniteSets, TLC

\* ---------------------------------------------------------------- bounds
NSessions == 2
MaxLease == 2
MaxRev == 4
MaxRevLive == 5
MaxRevWait == 8
MaxFaults == 1
MaxListeners == 2

Sessions == 1..NSessions
FaultySessions == {1}
\* A lease id is a positive number; the empty string '' is 0.
NoId == 0
LeaseIds == 1..(NSessions * MaxLease)
\* Keys of the namespace election/<name>/ : the lease id that names the key,
\* '' included (the key equal to the prefix itself).
Keys == 0..(NSessions * MaxLease)
\* the values proclaimed, and the value every campaign is called with
Values == {"a", "b"}
CampaignValues == {"a"}
\* new Election(...): lease = null
NullLease == 0
Prefix == "election/svc/"
\* '' for leaderKey, and the full key `${prefix}${leaseId}`
EmptyKey == <<>>
\* `${this.getPrefix()}${id}`
FullKey(id) == <<Prefix, id>>

VARIABLES
  rev,          \* store: header.revision
  kv,           \* store: key -> [create, value, by]; create = 0: the key is
                \* absent; by: the session whose request created the key
  leases,       \* store: the live leases
  nextLease,    \* store: per session, the number of leases granted to it
  obs,          \* the leader observer of the session Observer
  revCap,       \* store: the revision at which the run is cut off
  putNoLease,   \* store: a put under the lease id '' is taken as a put without
                \* a lease (TRUE) or refused (FALSE); the same for a whole run
  lease,        \* this.lease  (the Lease object, named by the id it is granted)
  leaseId,      \* this.leaseId
  leaderKey,    \* this._leaderKey
  leaderRevision, \* this._leaderRevision ('' is 0)
  isCampaigning,  \* this._isCampaigning
  pc,           \* position of the public call in flight
  arg,          \* the call's locals: value, request key and revision, result
  todo,         \* waitForDeletes: the keys still to wait for
  watch,        \* the open watcher of waitForDelete: [key, fired] or none
  reinit,       \* lease objects whose grant() a background initialize() awaits
  ret,          \* outcome of the public call that returned in the last step
  elected,      \* observed: campaign() resolved for the candidacy now recorded
  ahead,        \* observed: the settled leaders' keys when campaign() was called
  lost,         \* observed: the lease was lost since campaign() was last called
  faults        \* store errors raised so far

vars == <<rev, kv, leases, nextLease, lease, leaseId, leaderKey, leaderRevision,
          isCampaigning, pc, arg, todo, watch, reinit, ret, elected, ahead, lost,
          faults, putNoLease, revCap, obs>>

store == <<rev, kv, leases, nextLease>>
session == <<lease, leaseId, leaderKey, leaderRevision, isCampaigning>>

\* ------------------------------------------------------------------ store
Absent == [create |-> 0, value |-> "", by |-> 0]
NoWatch == [key |-> 0, open |-> FALSE, fired |-> FALSE]
NoArg == [value |-> "", key |-> 0, crev |-> 0, succeeded |-> FALSE,
          revision |-> 0, kvcreate |-> 0, kvvalue |-> "", err |-> "", obj |-> 0,
          lost |-> FALSE]
\* op, st: the call and how it ended; key: the key getLeader returned;
\* path: how an inner or outer resign() ended; lost: the call was made after a
\* lease loss; ahead: the leaders that were settled when campaign was called
NoRet == [op |-> "none", st |-> "", key |-> EmptyKey, path |-> "", lost |-> FALSE,
          ahead |-> {}]
NoRets == [s \in Sessions |-> NoRet]
\* the observer: pc, its position in observe(); cycles, the calls of observe()
\* past the guard that have not ended; caught, the rejections whose catch
\* callback of tryObserve has not run yet; listeners, errl: the 'leader'
\* listeners and whether an 'error' listener is registered; key: the local
\* leaderKey; open, prefix, fired, evt: its watcher; err: the watcher raised
\* and the error waits for watcher.cancel(); last, errors: the latest
\* 'leader' notification and the number of 'error' notifications
NoObs == [pc |-> "off", isObserving |-> FALSE, cycles |-> 0, caught |-> 0,
          listeners |-> 0, errl |-> FALSE, key |-> EmptyKey,
          open |-> FALSE, prefix |-> FALSE, fired |-> FALSE, evt |-> EmptyKey,
          err |-> FALSE, last |-> EmptyKey, errors |-> 0]

\* the live keys under the prefix (namespace.getAll())
LiveKeys == {k \in Keys : kv[k].create > 0}

\* .maxCreateRevision(m): the store filters on create_revision <= m; 0 is no bound
MaxCreateRevision(S, m) == IF m = 0 THEN S ELSE {k \in S : kv[k].create <= m}

\* .sort('Create', 'Ascend' | 'Descend').keys()
RECURSIVE SortCreate(_, _)
SortCreate(S, ascend) ==
  IF S = {} THEN <<>>
  ELSE LET k == CHOOSE x \in S : \A y \in S :
                  IF ascend THEN kv[x].create <= kv[y].create
                            ELSE kv[x].create >= kv[y].create
       IN <<k>> \o SortCreate(S \ {k}, ascend)

\* .if(key, 'Create', '==', r): the compare of a transaction
CompareCreate(key, r) == kv[key].create = r

\* a put names a lease the store still holds; whether the store takes the
\* lease id '' for "no lease" or refuses it is not decided by election.ts
LeaseOk(l) == (l = NoId /\ putNoLease) \/ l \in leases

\* a put of the store: a new key gets the new revision as create_revision,
\* an existing key keeps its create_revision
PutKv(key, v, s) ==
  [kv EXCEPT ![key] = [create |-> IF kv[key].create = 0 THEN rev + 1
                                  ELSE kv[key].create,
                       value |-> v,
                       by |-> IF kv[key].create = 0 THEN s ELSE kv[key].by]]

\* a delete event reaches every open watcher of a deleted key
Notify(K) ==
  [s \in Sessions |->
     IF watch[s].open /\ watch[s].key \in K
     THEN [watch[s] EXCEPT !.fired = TRUE] ELSE watch[s]]

\* the watcher of the observer: a key watcher takes the delete event of its
\* key, a prefix watcher takes put events, of which the observer's promise
\* keeps the first
ObsDeleted(gone) ==
  IF obs.open /\ ~obs.prefix /\ obs.key # EmptyKey /\ obs.key[2] \in gone
  THEN [obs EXCEPT !.fired = TRUE] ELSE obs

ObsPut(k) ==
  IF obs.open /\ obs.prefix /\ ~obs.fired
  THEN [obs EXCEPT !.fired = TRUE, !.evt = FullKey(k)] ELSE obs

\* the store deletes the keys K (a delete request, or the keys of a lease
\* that expired or was revoked): one new revision if a key was live
DeleteKeys(K) ==
  LET gone == K \cap LiveKeys IN
  /\ gone # {} => rev < revCap
  /\ rev' = IF gone = {} THEN rev ELSE rev + 1
  /\ kv' = [k \in Keys |-> IF k \in gone THEN Absent ELSE kv[k]]
  /\ watch' = Notify(gone)
  /\ obs' = ObsDeleted(gone)

\* the keys a lease backs: the candidate key named by the lease id
KeysOfLease(l) == {k \in Keys : k = l /\ l # NoId}

\* the id the store grants next to session s: ids are unique, and only their
\* identity matters, so each session's leases are numbered in a range of its own
GrantId(s) == (s - 1) * MaxLease + nextLease[s] + 1

\* namespace.lease(ttl): a new Lease object, granted by the store
NewLease(s) ==
  /\ nextLease[s] < MaxLease
  /\ lease' = [lease EXCEPT ![s] = GrantId(s)]
  /\ leases' = leases \cup {GrantId(s)}
  /\ nextLease' = [nextLease EXCEPT ![s] = @ + 1]


\* ------------------------------------------------------- session helpers
\* the state after new Election(...) of every session, on an empty store
Start(cap) ==
  /\ revCap = cap
  /\ rev = 1
  /\ kv = [k \in Keys |-> Absent]
  /\ leases = {}
  /\ nextLease = [s \in Sessions |-> 0]
  /\ lease = [s \in Sessions |-> NullLease]
  /\ leaseId = [s \in Sessions |-> NoId]
  /\ leaderKey = [s \in Sessions |-> EmptyKey]
  /\ leaderRevision = [s \in Sessions |-> 0]
  /\ isCampaigning = [s \in Sessions |-> FALSE]
  /\ pc = [s \in Sessions |-> "idle"]
  /\ arg = [s \in Sessions |-> NoArg]
  /\ todo = [s \in Sessions |-> <<>>]
  /\ watch = [s \in Sessions |-> NoWatch]
  /\ reinit = [s \in Sessions |-> {}]
  /\ ret = NoRets
  /\ elected = [s \in Sessions |-> FALSE]
  /\ ahead = [s \in Sessions |-> {}]
  /\ lost = [s \in Sessions |-> FALSE]
  /\ faults = 0
  /\ putNoLease \in BOOLEAN

Init == Start(MaxRev) /\ obs = NoObs
InitLive == Start(MaxRevLive) /\ obs = NoObs

\* the candidacy a session has recorded is in the store: the key named by
\* leaderKey exists with create revision leaderRevision
Intact(s) ==
  /\ isCampaigning[s]
  /\ leaderKey[s] # EmptyKey
  /\ leaderRevision[s] > 0
  /\ kv[leaderKey[s][2]].create = leaderRevision[s]

\* a session whose campaign() has resolved and whose candidate key is still
\* in the store
Settled(s) == elected[s] /\ Intact(s)

\* the public call of s returns or throws: outcome r
Return(s, r) ==
  /\ pc' = [pc EXCEPT ![s] = "idle"]
  /\ arg' = [arg EXCEPT ![s] = NoArg]
  /\ todo' = [todo EXCEPT ![s] = <<>>]
  /\ ahead' = [ahead EXCEPT ![s] = {}]
  /\ ret' = [t \in Sessions |-> IF t = s THEN r ELSE NoRet]

\* the call of s goes on to the request at position p with the locals a
Goto(s, p, a) ==
  /\ pc' = [pc EXCEPT ![s] = p]
  /\ arg' = [arg EXCEPT ![s] = a]
  /\ ret' = NoRets

Outcome(op, st) == [NoRet EXCEPT !.op = op, !.st = st]

\* campaign() resolves: waitForElected returned
Elected(s) ==
  /\ Return(s, [Outcome("campaign", "ok") EXCEPT !.ahead = ahead[s]])
  /\ elected' = [elected EXCEPT ![s] = TRUE]

\* waitForElected(): the predecessor query is issued with
\* lastRevision = leaderRevision - 1   (lines 157-162)
LastRevision(r) == r - 1

WaitForElected(s, r) ==
  /\ Goto(s, "w_query", [NoArg EXCEPT !.crev = LastRevision(r)])
  /\ UNCHANGED <<todo, ahead>>

\* catch (error) { await this.resign(); throw error; }  (lines 87-90, 95-98):
\* resign() is entered with the error to re-raise; it returns at once when the
\* session is not campaigning, else its transaction is issued
CatchResign(s, e) ==
  IF isCampaigning[s]
  THEN /\ Goto(s, "r_txn", [NoArg EXCEPT !.key = leaseId[s],
                                         !.crev = leaderRevision[s], !.err = e])
       /\ todo' = [todo EXCEPT ![s] = <<>>]
       /\ UNCHANGED ahead
  ELSE Return(s, Outcome("campaign", e))

\* the end of resign(): a resign() called from campaign's catch re-raises the
\* campaign's error, a resign() called by the user returns
ResignEnds(s, path) ==
  Return(s, IF arg[s].err = "" THEN [Outcome("resign", "ok") EXCEPT !.path = path]
            ELSE [Outcome("campaign", arg[s].err) EXCEPT !.path = path])

\* a resign() that forgets to reset the flag
ClearLeaderKeepsFlag(s) ==
  /\ leaderKey' = [leaderKey EXCEPT ![s] = EmptyKey]
  /\ leaderRevision' = [leaderRevision EXCEPT ![s] = 0]
  /\ UNCHANGED isCampaigning
  /\ elected' = [elected EXCEPT ![s] = FALSE]

\* lines 138-140
ClearLeader(s) ==
  /\ leaderKey' = [leaderKey EXCEPT ![s] = EmptyKey]
  /\ leaderRevision' = [leaderRevision EXCEPT ![s] = 0]
  /\ isCampaigning' = [isCampaigning EXCEPT ![s] = FALSE]
  /\ elected' = [elected EXCEPT ![s] = FALSE]

\* --------------------------------------------------------------- campaign
\* campaign(value), up to its first await.  initialize() grants a lease only
\* when this.lease is null; otherwise the transaction is issued at once with
\* the lease id the session has now.
campaign(s, v) ==
  /\ pc[s] = "idle"
  /\ ahead' = [ahead EXCEPT ![s] = {<<leaderKey[t][2], leaderRevision[t]>> :
                                      t \in {u \in Sessions \ {s} : Settled(u)}}]
  /\ lost' = [lost EXCEPT ![s] = FALSE]
  /\ IF lease[s] = NullLease
     THEN /\ NewLease(s)
          /\ Goto(s, "c_grant", [NoArg EXCEPT !.value = v])
     ELSE /\ Goto(s, "c_txn", [NoArg EXCEPT !.value = v, !.key = leaseId[s]])
          /\ UNCHANGED <<lease, leases, nextLease>>
  /\ UNCHANGED <<rev, kv, leaseId, leaderKey, leaderRevision, isCampaigning, todo,
                 watch, reinit, elected, faults, putNoLease, revCap, obs>>

\* initialize() called by the user, lines 59-63, up to its await: a lease is
\* requested only when this.lease is null, else the call returns at once
CallInitialize(s) ==
  /\ pc[s] = "idle"
  /\ IF lease[s] = NullLease
     THEN /\ NewLease(s)
          /\ Goto(s, "i_grant", NoArg)
          /\ UNCHANGED <<todo, ahead>>
     ELSE /\ Return(s, Outcome("initialize", "ok"))
          /\ UNCHANGED <<lease, leases, nextLease>>
  /\ UNCHANGED <<rev, kv, leaseId, leaderKey, leaderRevision, isCampaigning, watch,
                 reinit, elected, lost, faults, putNoLease, revCap, obs>>

\* initialize(), line 63: the grant resolves and leaseId is set; campaign goes
\* on to issue its transaction, a call by the user returns
initialize(s) ==
  /\ pc[s] \in {"c_grant", "i_grant"}
  /\ leaseId' = [leaseId EXCEPT ![s] = lease[s]]
  /\ IF pc[s] = "c_grant"
     THEN /\ Goto(s, "c_txn", [arg[s] EXCEPT !.key = lease[s]])
          /\ UNCHANGED <<todo, ahead>>
     ELSE Return(s, Outcome("initialize", "ok"))
  /\ UNCHANGED <<store, lease, leaderKey, leaderRevision, isCampaigning,
                 watch, reinit, elected, lost, faults, putNoLease, revCap, obs>>

\* lines 70-74, at the store: if the key was never created, put it under the
\* lease, else read it.  A put under a lease the store no longer holds is
\* refused and the transaction raises.
CampaignTxn(s) ==
  /\ pc[s] = "c_txn"
  /\ LET key == arg[s].key IN
     IF CompareCreate(key, 0)
     THEN IF LeaseOk(key)
          THEN /\ rev < revCap
               /\ rev' = rev + 1
               /\ kv' = PutKv(key, arg[s].value, s)
               /\ obs' = ObsPut(key)
               /\ Goto(s, "c_cont", [arg[s] EXCEPT !.succeeded = TRUE,
                                                   !.revision = rev + 1])
               /\ UNCHANGED <<todo, ahead>>
          ELSE /\ Return(s, Outcome("campaign", "StoreError"))
               /\ UNCHANGED <<rev, kv, obs>>
     ELSE /\ Goto(s, "c_cont", [arg[s] EXCEPT !.succeeded = FALSE, !.revision = rev,
                                              !.kvcreate = kv[key].create,
                                              !.kvvalue = kv[key].value])
          /\ UNCHANGED <<rev, kv, obs, todo, ahead>>
  /\ UNCHANGED <<leases, nextLease, session, watch, reinit, elected, lost, faults, putNoLease, revCap>>

\* a campaign() that records the transaction's revision in both branches
CampaignContHeader(s) ==
  /\ pc[s] = "c_cont"
  /\ LET r == arg[s].revision IN
     /\ leaderKey' = [leaderKey EXCEPT ![s] = FullKey(leaseId[s])]
     /\ leaderRevision' = [leaderRevision EXCEPT ![s] = r]
     /\ isCampaigning' = [isCampaigning EXCEPT ![s] = TRUE]
     /\ elected' = [elected EXCEPT ![s] =
                      @ /\ leaderKey[s] = FullKey(leaseId[s]) /\ leaderRevision[s] = r]
     /\ IF ~arg[s].succeeded /\ arg[s].kvvalue # arg[s].value
        THEN /\ Goto(s, "cp_txn", [NoArg EXCEPT !.value = arg[s].value,
                                                !.key = leaseId[s], !.crev = r])
             /\ UNCHANGED <<todo, ahead>>
        ELSE WaitForElected(s, r)
  /\ UNCHANGED <<store, lease, leaseId, watch, reinit, lost, faults, putNoLease, revCap, obs>>

\* lines 76-94: the transaction's response
CampaignCont(s) ==
  /\ pc[s] = "c_cont"
  /\ LET r == IF arg[s].succeeded THEN arg[s].revision ELSE arg[s].kvcreate IN
     /\ leaderKey' = [leaderKey EXCEPT ![s] = FullKey(leaseId[s])]
     /\ leaderRevision' = [leaderRevision EXCEPT ![s] = r]
     /\ isCampaigning' = [isCampaigning EXCEPT ![s] = TRUE]
     /\ elected' = [elected EXCEPT ![s] =
                      @ /\ leaderKey[s] = FullKey(leaseId[s]) /\ leaderRevision[s] = r]
     /\ IF ~arg[s].succeeded /\ arg[s].kvvalue # arg[s].value
        THEN \* await this.proclaim(value): campaigning, so its transaction is issued
             /\ Goto(s, "cp_txn", [NoArg EXCEPT !.value = arg[s].value,
                                                !.key = leaseId[s], !.crev = r])
             /\ UNCHANGED <<todo, ahead>>
        ELSE WaitForElected(s, r)
  /\ UNCHANGED <<store, lease, leaseId, watch, reinit, lost, faults, putNoLease, revCap, obs>>

\* --------------------------------------------------------------- proclaim
\* a proclaim() without the isCampaigning guard
proclaimUnguarded(s, v) ==
  /\ pc[s] = "idle"
  /\ Goto(s, "p_txn", [NoArg EXCEPT !.value = v, !.key = leaseId[s],
                                    !.crev = leaderRevision[s], !.lost = lost[s]])
  /\ UNCHANGED <<store, session, todo, watch, reinit, elected, ahead, lost, faults, putNoLease, revCap, obs>>

\* a proclaim() that compares with the revision before the recorded one
proclaimStale(s, v) ==
  /\ pc[s] = "idle"
  /\ IF ~isCampaigning[s]
     THEN Return(s, [Outcome("proclaim", "NotLeader") EXCEPT !.lost = lost[s]])
     ELSE /\ Goto(s, "p_txn", [NoArg EXCEPT !.value = v, !.key = leaseId[s],
                                            !.crev = LastRevision(leaderRevision[s]),
                                            !.lost = lost[s]])
          /\ UNCHANGED <<todo, ahead>>
  /\ UNCHANGED <<store, session, watch, reinit, elected, lost, faults, putNoLease, revCap, obs>>

\* proclaim(value), lines 101-109, up to its await
proclaim(s, v) ==
  /\ pc[s] = "idle"
  /\ IF ~isCampaigning[s]
     THEN Return(s, [Outcome("proclaim", "NotLeader") EXCEPT !.lost = lost[s]])
     ELSE /\ Goto(s, "p_txn", [NoArg EXCEPT !.value = v, !.key = leaseId[s],
                                            !.crev = leaderRevision[s],
                                            !.lost = lost[s]])
          /\ UNCHANGED <<todo, ahead>>
  /\ UNCHANGED <<store, session, watch, reinit, elected, lost, faults, putNoLease, revCap, obs>>

\* lines 106-114, at the store and back: if the key's create revision is the
\* recorded one, put the value under the lease
ProclaimTxn(s) ==
  /\ pc[s] \in {"p_txn", "cp_txn"}
  /\ LET key == arg[s].key
         inner == pc[s] = "cp_txn" IN
     IF CompareCreate(key, arg[s].crev)
     THEN /\ UNCHANGED <<leaderKey>>
          /\ IF LeaseOk(key)
             THEN /\ rev < revCap
                  /\ rev' = rev + 1
                  /\ kv' = PutKv(key, arg[s].value, s)
                  /\ obs' = ObsPut(key)
                  /\ IF inner THEN WaitForElected(s, leaderRevision[s])
                     ELSE Return(s, [Outcome("proclaim", "ok") EXCEPT
                                       !.lost = arg[s].lost])
             ELSE /\ UNCHANGED <<rev, kv, obs>>
                  /\ IF inner THEN CatchResign(s, "StoreError")
                     ELSE Return(s, [Outcome("proclaim", "StoreError") EXCEPT
                                       !.lost = arg[s].lost])
     ELSE /\ leaderKey' = [leaderKey EXCEPT ![s] = EmptyKey]
          /\ UNCHANGED <<rev, kv, obs>>
          /\ IF inner THEN CatchResign(s, "NotLeader")
             ELSE Return(s, [Outcome("proclaim", "NotLeader") EXCEPT
                               !.lost = arg[s].lost])
  /\ UNCHANGED <<leases, nextLease, lease, leaseId, leaderRevision, isCampaigning,
                 watch, reinit, elected, lost, faults, putNoLease, revCap>>

\* --------------------------------------------- waitForElected and waiters
\* the keys created before this one, latest first (lines 158-162)
Predecessors(m) == SortCreate(MaxCreateRevision(LiveKeys, m), FALSE)

\* waitForDeletes(keys), lines 257-273: nothing to wait for, a direct
\* waitForDelete of the only key, or the first task's existence read
WaitForDeletes(s, keys) ==
  IF Len(keys) = 0 THEN Elected(s)
  ELSE /\ todo' = [todo EXCEPT ![s] = keys]
       /\ Goto(s, IF Len(keys) = 1 THEN "w_watch" ELSE "w_get", NoArg)
       /\ UNCHANGED <<elected, ahead>>

\* lines 276-279: the next task, or the end of waitForDeletes
NextTask(s) ==
  IF Len(todo[s]) <= 1 THEN Elected(s)
  ELSE /\ todo' = [todo EXCEPT ![s] = Tail(todo[s])]
       /\ Goto(s, "w_get", NoArg)
       /\ UNCHANGED <<elected, ahead>>

\* waitForElected, lines 158-170: the predecessor query at the store, and what
\* follows from its result
waitForElected(s) ==
  /\ pc[s] = "w_query"
  /\ WaitForDeletes(s, Predecessors(arg[s].crev))
  /\ UNCHANGED <<store, session, watch, reinit, lost, faults, putNoLease, revCap, obs>>

\* a task of waitForDeletes, lines 267-271: the existence read of its key
KeyExisted(k) == kv[k].create > 0

\* a task that opens its watcher without the existence read
waitForDeletesNoRead(s) ==
  /\ pc[s] = "w_get"
  /\ Goto(s, "w_watch", NoArg)
  /\ UNCHANGED <<todo, elected, ahead>>
  /\ UNCHANGED <<store, session, watch, reinit, lost, faults, putNoLease, revCap, obs>>

waitForDeletes(s) ==
  /\ pc[s] = "w_get"
  /\ IF KeyExisted(Head(todo[s]))
     THEN /\ Goto(s, "w_watch", NoArg)
          /\ UNCHANGED <<todo, elected, ahead>>
     ELSE NextTask(s)
  /\ UNCHANGED <<store, session, watch, reinit, lost, faults, putNoLease, revCap, obs>>

\* waitForDelete, lines 243-248: the watcher of one key is created; it reports
\* the deletions that happen from now on
waitForDelete(s) ==
  /\ pc[s] = "w_watch"
  /\ watch' = [watch EXCEPT ![s] = [key |-> Head(todo[s]), open |-> TRUE,
                                    fired |-> FALSE]]
  /\ Goto(s, "w_wait", NoArg)
  /\ UNCHANGED <<store, session, todo, reinit, elected, ahead, lost, faults, putNoLease, revCap, obs>>

\* waitForDelete, lines 250-253: the delete event arrived, and the finally
\* block sends watcher.cancel(); the watcher is open until the store answers
Deleted(s) ==
  /\ pc[s] = "w_wait"
  /\ watch[s].fired
  /\ Goto(s, "w_cancel", NoArg)
  /\ UNCHANGED <<store, session, todo, watch, reinit, elected, ahead, lost, faults,
                 putNoLease, revCap, obs>>

\* line 253: watcher.cancel() is answered; waitForDelete returns, or raises
\* the watcher's error into the catch of campaign
Cancelled(s) ==
  /\ pc[s] = "w_cancel"
  /\ watch' = [watch EXCEPT ![s] = NoWatch]
  /\ IF arg[s].err = "" THEN NextTask(s)
     ELSE /\ CatchResign(s, arg[s].err)
          /\ UNCHANGED elected
  /\ UNCHANGED <<store, session, reinit, lost, faults, putNoLease, revCap, obs>>

\* ----------------------------------------------------------------- resign
\* resign(), lines 117-125, up to its await
resign(s) ==
  /\ pc[s] = "idle"
  /\ IF ~isCampaigning[s]
     THEN Return(s, Outcome("resign", "ok"))
     ELSE /\ Goto(s, "r_txn", [NoArg EXCEPT !.key = leaseId[s],
                                            !.crev = leaderRevision[s]])
          /\ UNCHANGED <<todo, ahead>>
  /\ UNCHANGED <<store, session, watch, reinit, elected, lost, faults, putNoLease, revCap, obs>>

\* lines 122-140, at the store and back: delete the key if its create revision
\* is the recorded one; if not, revoke the lease the session holds
ResignTxn(s) ==
  /\ pc[s] = "r_txn"
  /\ IF CompareCreate(arg[s].key, arg[s].crev)
     THEN /\ DeleteKeys({arg[s].key})
          /\ ClearLeader(s)
          /\ ResignEnds(s, "delete")
     ELSE /\ UNCHANGED <<rev, kv, watch, obs, leaderKey, leaderRevision,
                         isCampaigning, elected>>
          /\ IF lease[s] = NullLease
             THEN ResignEnds(s, "nolease")
             ELSE /\ Goto(s, "r_revoke", [arg[s] EXCEPT !.obj = lease[s]])
                  /\ UNCHANGED <<todo, ahead>>
  /\ UNCHANGED <<leases, nextLease, lease, leaseId, reinit, lost, faults, putNoLease, revCap>>

\* a fallback that returns after the new lease, without lines 138-140
ResignRevokeNoClear(s) ==
  /\ pc[s] = "r_revoke"
  /\ nextLease[s] < MaxLease
  /\ DeleteKeys(IF arg[s].obj \in leases THEN KeysOfLease(arg[s].obj) ELSE {})
  /\ leases' = (leases \ {arg[s].obj}) \cup {GrantId(s)}
  /\ lease' = [lease EXCEPT ![s] = GrantId(s)]
  /\ nextLease' = [nextLease EXCEPT ![s] = @ + 1]
  /\ leaseId' = [leaseId EXCEPT ![s] = NoId]
  /\ ResignEnds(s, "revoke")
  /\ UNCHANGED <<leaderKey, leaderRevision, isCampaigning, elected, reinit, lost,
                 faults, putNoLease, revCap>>

\* lines 132-140: the lease is revoked at the store (its keys go with it), a
\* new Lease object replaces it and leaseId is cleared
ResignRevoke(s) ==
  /\ pc[s] = "r_revoke"
  /\ nextLease[s] < MaxLease
  /\ DeleteKeys(IF arg[s].obj \in leases THEN KeysOfLease(arg[s].obj) ELSE {})
  /\ leases' = (leases \ {arg[s].obj}) \cup {GrantId(s)}
  /\ lease' = [lease EXCEPT ![s] = GrantId(s)]
  /\ nextLease' = [nextLease EXCEPT ![s] = @ + 1]
  /\ leaseId' = [leaseId EXCEPT ![s] = NoId]
  /\ ClearLeader(s)
  /\ ResignEnds(s, "revoke")
  /\ UNCHANGED <<reinit, lost, faults, putNoLease, revCap>>

\* -------------------------------------------------------------- getLeader
\* result[result.length - 1] in the place of result[0]
LastKey(keys) == FullKey(keys[Len(keys)])

\* the first of the candidates in creation order, as a full key
FirstKey(keys) == FullKey(keys[1])

\* getLeader(), lines 143-149
getLeader(s) ==
  /\ pc[s] = "idle"
  /\ LET result == SortCreate(LiveKeys, TRUE) IN
     Return(s, IF Len(result) = 0 THEN Outcome("getLeader", "NoLeader")
               ELSE [Outcome("getLeader", "ok") EXCEPT !.key = FirstKey(result)])
  /\ UNCHANGED <<store, session, watch, reinit, elected, lost, faults, putNoLease, revCap, obs>>

\* ------------------------------------------------------------------ lease
\* the store drops a lease whose ttl ran out, and the keys it backs
LeaseExpire(l) ==
  /\ l \in leases
  /\ leases' = leases \ {l}
  /\ DeleteKeys(KeysOfLease(l))
  /\ ret' = NoRets
  /\ UNCHANGED <<nextLease, session, pc, arg, todo, reinit, elected, ahead, lost,
                 faults, putNoLease, revCap>>

\* onLeaseLost(), lines 226-233, with the start of the initialize() it calls:
\* the Lease object tells that the store dropped its lease
onLeaseLost(s) ==
  /\ lease[s] # NullLease
  /\ lease[s] \notin leases
  /\ lease[s] \notin reinit[s]
  /\ pc[s] \notin {"c_grant", "i_grant", "r_revoke"}
  /\ NewLease(s)
  /\ leaseId' = [leaseId EXCEPT ![s] = NoId]
  /\ reinit' = [reinit EXCEPT ![s] = @ \cup {GrantId(s)}]
  /\ lost' = [lost EXCEPT ![s] = @ \/ (elected[s] /\ isCampaigning[s])]
  /\ ret' = NoRets
  /\ UNCHANGED <<rev, kv, leaderKey, leaderRevision, isCampaigning, pc, arg, todo,
                 watch, elected, ahead, faults, putNoLease, revCap, obs>>

\* initialize() called by onLeaseLost, line 63: the grant resolves
Reinitialized(s, l) ==
  /\ l \in reinit[s]
  /\ leaseId' = [leaseId EXCEPT ![s] = l]
  /\ reinit' = [reinit EXCEPT ![s] = @ \ {l}]
  /\ ret' = NoRets
  /\ UNCHANGED <<store, lease, leaderKey, leaderRevision, isCampaigning, pc, arg,
                 todo, watch, elected, ahead, lost, faults, putNoLease, revCap, obs>>

\* ------------------------------------------------------------ store errors
\* a request of s in flight raises a store error.  A grant that fails leaves
\* the Lease object without a lease at the store.  An error of the watcher
\* (lines 247, 250-253) goes through the finally block: watcher.cancel() is
\* sent and the error is raised when it is answered.  When watcher.cancel()
\* itself raises, that error is raised and the watcher stays open.
StoreFault(s) ==
  /\ faults < MaxFaults
  /\ faults' = faults + 1
  /\ pc[s] \in {"c_grant", "i_grant", "c_txn", "cp_txn", "p_txn", "w_query", "w_get",
                "w_watch", "w_wait", "w_cancel", "r_txn", "r_revoke"}
  /\ leases' = IF pc[s] \in {"c_grant", "i_grant"} THEN leases \ {lease[s]} ELSE leases
  /\ CASE pc[s] = "c_grant" ->
            Return(s, Outcome("campaign", "GrantError"))
       [] pc[s] = "i_grant" ->
            Return(s, Outcome("initialize", "GrantError"))
       [] pc[s] = "c_txn" ->
            Return(s, Outcome("campaign", "StoreError"))
       [] pc[s] = "p_txn" ->
            Return(s, Outcome("proclaim", "StoreError"))
       [] pc[s] = "w_wait" ->
            /\ Goto(s, "w_cancel", [NoArg EXCEPT !.err = "StoreError"])
            /\ UNCHANGED <<todo, ahead>>
       [] pc[s] \in {"cp_txn", "w_query", "w_get", "w_watch", "w_cancel"} ->
            CatchResign(s, "StoreError")
       [] pc[s] \in {"r_txn", "r_revoke"} ->
            Return(s, IF arg[s].err = "" THEN Outcome("resign", "StoreError")
                      ELSE Outcome("campaign", "StoreError"))
  /\ UNCHANGED <<rev, kv, nextLease, session, watch, reinit, elected, lost, putNoLease,
                 revCap, obs>>

\* getLeader(), lines 144-145: the read raises a store error
getLeaderFault(s) ==
  /\ faults < MaxFaults
  /\ faults' = faults + 1
  /\ pc[s] = "idle"
  /\ Return(s, Outcome("getLeader", "StoreError"))
  /\ UNCHANGED <<store, session, watch, reinit, elected, lost, putNoLease, revCap, obs>>

\* the session whose listeners the observer record holds
ObserverSession == 1

\* initialize() called by onLeaseLost, line 232: the grant raises; the catch
\* callback emits 'error', which throws when no 'error' listener is registered
ReinitFault(s, l) ==
  /\ faults < MaxFaults
  /\ faults' = faults + 1
  /\ l \in reinit[s]
  /\ reinit' = [reinit EXCEPT ![s] = @ \ {l}]
  /\ leases' = leases \ {l}
  /\ obs' = IF s = ObserverSession /\ obs.errl
            THEN [obs EXCEPT !.errors = @ + 1] ELSE obs
  /\ ret' = NoRets
  /\ UNCHANGED <<rev, kv, nextLease, session, pc, arg, todo, watch, elected, ahead,
                 lost, putNoLease, revCap>>

\* --------------------------------------------------------------- observer
\* what an observer step leaves alone
observed == <<rev, kv, leases, nextLease, lease, leaseId, leaderKey, leaderRevision,
              isCampaigning, pc, arg, todo, watch, reinit, elected, ahead, lost,
              putNoLease, revCap>>

\* an observe() without the guard of lines 174-176
tryObserveNoGuard(o) ==
  [o EXCEPT !.isObserving = TRUE, !.cycles = @ + 1, !.pc = "o_query"]

\* tryObserve() with the start of the observe() it calls, lines 173-181 and
\* 215-220: behind the guard nothing happens; else the flag is set and the
\* candidate query is issued
tryObserve(o) ==
  IF o.isObserving THEN o
  ELSE [o EXCEPT !.isObserving = TRUE, !.cycles = @ + 1, !.pc = "o_query"]

\* the finally of observe(), line 205
Finally(o) ==
  [o EXCEPT !.isObserving = FALSE, !.cycles = @ - 1, !.pc = "off",
            !.key = EmptyKey, !.err = FALSE]

\* watcher.cancel() answered (lines 194, 253): the watcher is closed
Cancel(o) ==
  [o EXCEPT !.open = FALSE, !.prefix = FALSE, !.fired = FALSE, !.evt = EmptyKey]

\* this.emit('leader', leaderKey), line 199, and the call of waitForDelete
Emit(o, k) == [o EXCEPT !.key = k, !.last = k, !.pc = "o_watch"]

\* on('leader', listener): 'newListener' is emitted before the listener is
\* added, and onNewListener (lines 235-239) calls tryObserve
onNewListener ==
  /\ obs.listeners < MaxListeners
  /\ obs' = [tryObserve(obs) EXCEPT !.listeners = @ + 1]
  /\ ret' = NoRets
  /\ UNCHANGED <<observed, faults>>

\* removeListener('leader', listener)
removeListener ==
  /\ obs.listeners > 0
  /\ obs' = [obs EXCEPT !.listeners = @ - 1]
  /\ ret' = NoRets
  /\ UNCHANGED <<observed, faults>>

\* on('error', listener): not a 'leader' event, shouldObserve is false
onError ==
  /\ ~obs.errl
  /\ obs' = [obs EXCEPT !.errl = TRUE]
  /\ ret' = NoRets
  /\ UNCHANGED <<observed, faults>>

\* observe(), lines 181-199: the candidate query at the store and its result;
\* with a candidate the leader is emitted and waitForDelete is called
observe ==
  /\ obs.pc = "o_query"
  /\ LET result == SortCreate(LiveKeys, TRUE) IN
     obs' = IF Len(result) = 0 THEN [obs EXCEPT !.pc = "o_pwatch"]
            ELSE Emit(obs, FirstKey(result))
  /\ ret' = NoRets
  /\ UNCHANGED <<observed, faults>>

\* line 185: the prefix watcher is created; it reports the puts from now on
ObservePrefix ==
  /\ obs.pc = "o_pwatch"
  /\ obs' = [obs EXCEPT !.pc = "o_pwait", !.open = TRUE, !.prefix = TRUE,
                        !.fired = FALSE]
  /\ ret' = NoRets
  /\ UNCHANGED <<observed, faults>>

\* lines 186-194: the first put event resolves the promise, and the finally
\* block sends watcher.cancel()
ObservePut ==
  /\ obs.pc = "o_pwait"
  /\ obs.fired
  /\ obs' = [obs EXCEPT !.pc = "o_cancel"]
  /\ ret' = NoRets
  /\ UNCHANGED <<observed, faults>>

\* waitForDelete(this.parent, leaderKey), line 243: the watcher of the
\* leader key is created
ObserveWatch ==
  /\ obs.pc = "o_watch"
  /\ obs' = [obs EXCEPT !.pc = "o_wait", !.open = TRUE, !.prefix = FALSE,
                        !.fired = FALSE]
  /\ ret' = NoRets
  /\ UNCHANGED <<observed, faults>>

\* lines 250-253: the delete event, and the finally block of waitForDelete
\* sends watcher.cancel()
ObserveDeleted ==
  /\ obs.pc = "o_wait"
  /\ obs.fired
  /\ obs' = [obs EXCEPT !.pc = "o_cancel"]
  /\ ret' = NoRets
  /\ UNCHANGED <<observed, faults>>

\* watcher.cancel() is answered.  After a watcher's error the flag is cleared
\* and observe() rejects.  After the put event of the prefix watcher (lines
\* 194-202) the event's key is emitted and waitForDelete is called.  After
\* the delete event (lines 253, 204-212) the flag is cleared, and the next
\* cycle starts if a 'leader' listener is registered now.
ObserveCancelled ==
  /\ obs.pc = "o_cancel"
  /\ obs' = IF obs.err THEN [Finally(Cancel(obs)) EXCEPT !.caught = @ + 1]
            ELSE IF obs.prefix THEN Emit(Cancel(obs), obs.evt)
            ELSE IF obs.listeners > 0 THEN tryObserve(Finally(Cancel(obs)))
            ELSE Finally(Cancel(obs))
  /\ ret' = NoRets
  /\ UNCHANGED <<observed, faults>>

\* a request or a watcher of the cycle raises.  A request that raises clears
\* the flag and observe() rejects; a watcher that raises goes through the
\* finally block, which sends watcher.cancel(); when watcher.cancel() itself
\* raises the flag is cleared, observe() rejects and the watcher stays open.
ObserveFault ==
  /\ faults < MaxFaults
  /\ faults' = faults + 1
  /\ obs.pc \in {"o_query", "o_pwatch", "o_pwait", "o_watch", "o_wait", "o_cancel"}
  /\ obs' = IF obs.pc \in {"o_pwait", "o_wait"}
            THEN [obs EXCEPT !.pc = "o_cancel", !.err = TRUE]
            ELSE [Finally(obs) EXCEPT !.caught = @ + 1]
  /\ ret' = NoRets
  /\ UNCHANGED observed

\* the catch callback of tryObserve, lines 216-219: emit('error') throws when
\* no 'error' listener is registered (EventEmitter), and the callback ends there
ObserveCatch ==
  /\ obs.caught > 0
  /\ obs' = IF obs.errl
            THEN [tryObserve(obs) EXCEPT !.caught = @ - 1, !.errors = @ + 1]
            ELSE [obs EXCEPT !.caught = @ - 1]
  /\ ret' = NoRets
  /\ UNCHANGED <<observed, faults>>

\* ---------------------------------------------------------- specifications
\* the steps of a session that change the session or the store
Change(s) ==
  \/ \E v \in CampaignValues : campaign(s, v)
  \/ initialize(s)
  \/ CampaignTxn(s)
  \/ CampaignCont(s)
  \/ \E v \in Values : proclaim(s, v)
  \/ ProclaimTxn(s)
  \/ waitForElected(s)
  \/ waitForDeletes(s)
  \/ waitForDelete(s)
  \/ Deleted(s)
  \/ Cancelled(s)
  \/ resign(s)
  \/ ResignTxn(s)
  \/ ResignRevoke(s)
  \/ onLeaseLost(s)
  \/ \E l \in LeaseIds : Reinitialized(s, l)

Step(s) ==
  \/ Change(s)
  \/ getLeader(s)

Next ==
  \/ \E s \in Sessions : Step(s)
  \/ \E l \in LeaseIds : LeaseExpire(l)

\* a store that raises errors.  The sessions are alike, so the session whose
\* request fails is taken to be the first; getLeader(), which changes neither
\* session nor store, is left out.
NextErr ==
  \/ \E s \in Sessions : Change(s)
  \/ \E l \in LeaseIds : LeaseExpire(l)
  \/ \E s \in FaultySessions : StoreFault(s)
  \/ \E s \in FaultySessions : \E l \in LeaseIds : ReinitFault(s, l)

Spec == Init /\ [][Next]_vars
SpecErr == Init /\ [][NextErr]_vars

\* the sessions' users call initialize() too, and its grant can fail;
\* getLeader() is left out as in NextErr
NextInit ==
  \/ \E s \in Sessions : Change(s)
  \/ \E l \in LeaseIds : LeaseExpire(l)
  \/ \E s \in Sessions : CallInitialize(s)
  \/ \E s \in FaultySessions : pc[s] = "i_grant" /\ StoreFault(s)

SpecInit == Init /\ [][NextInit]_vars
\* Sessions that campaign and resign while every lease is kept alive and the
\* store raises no errors, under fair scheduling: every request in flight is
\* answered, and the handler runs on the answer.
Answer(s) ==
  \/ initialize(s)
  \/ CampaignTxn(s)
  \/ CampaignCont(s)
  \/ waitForElected(s)
  \/ waitForDelete(s)
  \/ Deleted(s)
  \/ Cancelled(s)
  \/ ResignTxn(s)

NextLive ==
  \E s \in Sessions :
    \/ \E v \in CampaignValues : campaign(s, v)
    \/ resign(s)
    \/ Answer(s)

SpecLive == InitLive /\ [][NextLive]_vars /\ \A s \in Sessions : WF_vars(Answer(s))

\* the continuations of observe() after an await
Observe ==
  \/ observe
  \/ ObservePrefix
  \/ ObservePut
  \/ ObserveWatch
  \/ ObserveDeleted
  \/ ObserveCancelled

\* campaigns and resignations watched by the observer, leases kept alive
NextObs ==
  \/ NextLive
  \/ onNewListener
  \/ removeListener
  \/ Observe

SpecObs ==
  /\ Init /\ [][NextObs]_vars
  /\ \A s \in Sessions : WF_vars(Answer(s))
  /\ WF_vars(Observe)

\* the same with a store request or a watcher that raises
NextObsErr ==
  \/ NextObs
  \/ onError
  \/ ObserveFault
  \/ ObserveCatch
  \/ \E s \in FaultySessions : StoreFault(s)
  \/ \E s \in FaultySessions : getLeaderFault(s)

SpecObsErr == Init /\ [][NextObsErr]_vars

\* waitForElected() of one session against a store that other clients have
\* filled: session 1 has put its key and issues the predecessor query; any of
\* the other keys is a live candidate, each at a revision of its own; their
\* leases then run out in any order.
Waiter == 1
Candidates == Keys \ {NoId}
InitWait ==
  /\ revCap = MaxRevWait
  /\ rev = MaxRev + 1
  /\ putNoLease = FALSE
  /\ \E f \in [Candidates -> {0} \cup 2..(MaxRev + 1)] :
       /\ f[Waiter] > 0
       /\ \A j, k \in Candidates : (j # k /\ f[j] > 0) => f[j] # f[k]
       /\ kv = [k \in Keys |->
                  IF k # NoId /\ f[k] > 0
                  THEN [create |-> f[k], value |-> "a",
                        by |-> ((k - 1) \div MaxLease) + 1]
                  ELSE Absent]
       /\ leases = {k \in Candidates : f[k] > 0}
       /\ leaderRevision = [s \in Sessions |-> IF s = Waiter THEN f[Waiter] ELSE 0]
       /\ arg = [s \in Sessions |->
                   IF s = Waiter THEN [NoArg EXCEPT !.crev = LastRevision(f[Waiter])]
                   ELSE NoArg]
  /\ nextLease = [s \in Sessions |-> 1]
  /\ lease = [s \in Sessions |-> IF s = Waiter THEN Waiter ELSE NullLease]
  /\ leaseId = [s \in Sessions |-> IF s = Waiter THEN Waiter ELSE NoId]
  /\ leaderKey = [s \in Sessions |-> IF s = Waiter THEN FullKey(Waiter) ELSE EmptyKey]
  /\ isCampaigning = [s \in Sessions |-> s = Waiter]
  /\ pc = [s \in Sessions |-> IF s = Waiter THEN "w_query" ELSE "idle"]
  /\ todo = [s \in Sessions |-> <<>>]
  /\ watch = [s \in Sessions |-> NoWatch]
  /\ reinit = [s \in Sessions |-> {}]
  /\ ret = NoRets
  /\ elected = [s \in Sessions |-> FALSE]
  /\ ahead = [s \in Sessions |-> {}]
  /\ lost = [s \in Sessions |-> FALSE]
  /\ faults = 0
  /\ obs = NoObs

NextWait ==
  \/ waitForElected(Waiter)
  \/ waitForDeletes(Waiter)
  \/ waitForDelete(Waiter)
  \/ Deleted(Waiter)
  \/ Cancelled(Waiter)
  \/ \E l \in LeaseIds : LeaseExpire(l)

SpecWait == InitWait /\ [][NextWait]_vars

TypeOK ==
  /\ rev \in 1..revCap
  /\ \A k \in Keys : kv[k].create \in 0..revCap
  /\ \A s \in Sessions : lease[s] \in Keys /\ leaseId[s] \in Keys

\* ------------------------------------------------------------------ claims
\* the key of s has the lowest creation revision of the live keys
Lowest(s) == \A k \in LiveKeys : kv[k].create >= leaderRevision[s]

\* C1 (mutual exclusion): at most one session is a settled leader (its campaign
\* has resolved and its candidate key is live), and the settled leader's key has
\* the lowest creation revision of the live keys under the prefix.
C1_MutualExclusion ==
  \A s \in Sessions :
    Settled(s) => /\ Lowest(s)
                  /\ \A t \in Sessions : Settled(t) => t = s

\* C2 (FIFO): a campaign of s that resolves does so only after every leader
\* that was settled when s called campaign() lost that candidate key: none of
\* those keys is still in the store with the creation revision it had.
C2_Fifo ==
  \A s \in Sessions :
    (ret[s].op = "campaign" /\ ret[s].st = "ok")
      => \A a \in ret[s].ahead : kv[a[1]].create # a[2]

\* s waits for its turn: a request of waitForElected is in flight
Waiting(s) == pc[s] \in {"w_query", "w_get", "w_watch", "w_wait", "w_cancel"}

\* C3 (campaign liveness): once no live key has a creation revision lower than
\* the one a waiting session recorded, the session's campaign() resolves.
C3_CampaignLiveness ==
  \A s \in Sessions :
    (Waiting(s) /\ Lowest(s)) ~> (ret[s].op = "campaign" /\ ret[s].st = "ok")

\* leaderKey and leaderRevision are empty and isCampaigning is false
Cleared(s) ==
  /\ leaderKey[s] = EmptyKey
  /\ leaderRevision[s] = 0
  /\ ~isCampaigning[s]

\* C4 (campaign succeeds or leaves a clean state): when campaign() raises an
\* error after the lease was acquired, isCampaigning is false and leaderKey and
\* leaderRevision are empty.
C4_CampaignCleanFailure ==
  \A s \in Sessions :
    (ret[s].op = "campaign" /\ ret[s].st \notin {"ok", "GrantError"}) => Cleared(s)

\* C5 (proclaim fails in exactly two cases): a proclaim() called while not
\* campaigning fails with NotLeader at once, issues no request and changes no
\* state; a proclaim() whose key has not the recorded creation revision fails
\* with NotLeader, leaves the store unchanged and clears leaderKey; every other
\* proclaim() overwrites the value of the key and changes nothing else.
C5_ProclaimNotLeader ==
  [][\A s \in Sessions :
       /\ (pc[s] = "idle" /\ ret'[s].op = "proclaim")
            => /\ ~isCampaigning[s]
               /\ ret'[s].st = "NotLeader"
               /\ UNCHANGED <<store, session>>
       /\ (pc[s] = "idle" /\ pc'[s] = "p_txn") => isCampaigning[s]
       /\ (pc[s] = "p_txn" /\ ret'[s].op = "proclaim")
            => LET k == arg[s].key IN
               IF kv[k].create # leaderRevision[s]
               THEN /\ ret'[s].st = "NotLeader"
                    /\ UNCHANGED store
                    /\ leaderKey'[s] = EmptyKey
                    /\ UNCHANGED <<lease, leaseId, leaderRevision, isCampaigning>>
               ELSE /\ ret'[s].st = "ok"
                    /\ kv' = [kv EXCEPT ![k].value = arg[s].value]
                    /\ UNCHANGED <<leases, session>>]_vars

\* C5: a campaigning session's proclaim() failed on the compare
C5_Witness ==
  \E s \in Sessions :
    /\ ret[s].op = "proclaim" /\ ret[s].st = "NotLeader"
    /\ isCampaigning[s] /\ leaderKey[s] = EmptyKey

\* the candidate key of s, the key under its lease id, is the key s recorded,
\* and is in the store with the creation revision s recorded
CandidateIntact(s) == Intact(s) /\ leaderKey[s] = FullKey(leaseId[s])

\* what getLeader() returns on the store as it is ('' if it raises)
LeaderKey ==
  IF LiveKeys = {} THEN EmptyKey ELSE FirstKey(SortCreate(LiveKeys, TRUE))

\* C6 (value update preserves leadership): the proclaim(v2) of a session whose
\* campaign resolved and whose candidate key is intact succeeds; isCampaigning
\* stays true, leaderRevision and the key's creation revision stay, the stored
\* value is v2 and getLeader() returns the key it returned before.
C6_ProclaimKeepsLeadership ==
  [][\A s \in Sessions :
       (/\ pc[s] = "p_txn" /\ pc'[s] # "p_txn"
        /\ elected[s] /\ CandidateIntact(s)
        /\ arg[s].key = leaseId[s])
       => /\ ret'[s].op = "proclaim" /\ ret'[s].st = "ok"
          /\ isCampaigning'[s]
          /\ leaderRevision'[s] = leaderRevision[s]
          /\ kv'[arg[s].key].create = kv[arg[s].key].create
          /\ kv'[arg[s].key].value = arg[s].value
          /\ LeaderKey' = LeaderKey]_vars

\* C6: a settled leader's proclaim("b") succeeded after its campaign("a")
C6_Witness ==
  \E s \in Sessions :
    /\ ret[s].op = "proclaim" /\ ret[s].st = "ok"
    /\ elected[s] /\ CandidateIntact(s)
    /\ kv[leaseId[s]].value = "b"
    /\ LeaderKey = leaderKey[s]

\* C7 (resign releases and is idempotent): the resign() of a session whose
\* campaign resolved and whose candidate key is intact deletes the key and
\* clears leaderKey, leaderRevision and isCampaigning; a resign() on the cleared
\* session issues no request and changes neither store nor session.
C7_ResignReleases ==
  [][\A s \in Sessions :
       /\ (/\ pc[s] = "r_txn" /\ pc'[s] # "r_txn" /\ arg[s].err = ""
           /\ elected[s] /\ CandidateIntact(s)
           /\ arg[s].key = leaseId[s])
          => /\ ret'[s].op = "resign" /\ ret'[s].st = "ok"
             /\ kv'[arg[s].key] = Absent
             /\ leaderKey'[s] = EmptyKey
             /\ leaderRevision'[s] = 0
             /\ ~isCampaigning'[s]
       /\ (pc[s] = "idle" /\ Cleared(s) /\ pc'[s] # "idle")
          => pc'[s] \in {"c_grant", "c_txn"}
       /\ (pc[s] = "idle" /\ Cleared(s) /\ ret'[s].op = "resign")
          => /\ ret'[s].st = "ok"
             /\ UNCHANGED <<store, session>>]_vars

\* C7: a resign() returned after its delete: the key is gone, the state clear
C7_Witness ==
  \E s \in Sessions :
    /\ ret[s].op = "resign" /\ ret[s].path = "delete"
    /\ Cleared(s)
    /\ kv[leaseId[s]] = Absent
    /\ rev >= 3

\* C8 (resign clears local state in all outcomes): when a resign() entered by
\* a campaigning session returns, after the delete, after the revoke and the
\* new lease, or with no lease to revoke, leaderKey and leaderRevision are
\* empty and isCampaigning is false.
C8_ResignClears ==
  \A s \in Sessions : ret[s].path # "" => Cleared(s)

\* C8: a resign() returned by the fallback: lease revoked, a new one requested
C8_Witness ==
  \E s \in Sessions :
    /\ ret[s].op = "resign" /\ ret[s].path = "revoke"
    /\ Cleared(s) /\ leaseId[s] = NoId

\* C9 (getLeader): getLeader() raises NoLeader exactly when no key is live
\* under the prefix; else it returns the full key of the live key with the
\* lowest creation revision; it changes neither the session nor the store.
C9_GetLeader ==
  [][\A s \in Sessions :
       ret'[s].op = "getLeader"
       => /\ UNCHANGED <<store, session>>
          /\ (ret'[s].st = "NoLeader") <=> (LiveKeys = {})
          /\ ret'[s].st # "NoLeader"
               => /\ ret'[s].st = "ok"
                  /\ \E k \in LiveKeys :
                       /\ ret'[s].key = <<Prefix, k>>
                       /\ \A j \in LiveKeys : kv[k].create <= kv[j].create]_vars

\* C9: a session that never initialized got the leader's key
C9_Witness ==
  \E s \in Sessions :
    /\ ret[s].op = "getLeader" /\ ret[s].st = "ok"
    /\ lease[s] = NullLease /\ ~isCampaigning[s]
    /\ \E k \in LiveKeys : ret[s].key = <<Prefix, k>>

\* C10 (lease-loss recovery): when a leader loses its lease, the old Lease
\* object is dropped, leaseId is cleared and a new lease is requested; the
\* recovery writes no key; and a proclaim() called after the loss and before a
\* new campaign() does not succeed and writes nothing.
C10_LeaseLossRecovery ==
  [][\A s \in Sessions :
       /\ (lost'[s] /\ ~lost[s])
            => /\ lease'[s] # lease[s]
               /\ leaseId'[s] = NoId
               /\ lease'[s] \in reinit'[s]
       /\ reinit'[s] # reinit[s] => UNCHANGED <<rev, kv>>
       /\ (ret'[s].op = "proclaim" /\ ret'[s].lost)
            => /\ ret'[s].st \in {"NotLeader", "StoreError"}
               /\ UNCHANGED <<rev, kv>>]_vars

\* C11 (initialize makes the session ready): when initialize() resolves, as a
\* call of the user or as the first step of campaign() (the transaction is
\* issued), leaseId is not empty and is the id of the Lease object the session
\* holds.
C11_InitializeReady ==
  [][\A s \in Sessions :
       (\/ ret'[s].op = "initialize" /\ ret'[s].st = "ok"
        \/ pc[s] \in {"idle", "c_grant"} /\ pc'[s] = "c_txn")
       => /\ leaseId'[s] # NoId
          /\ leaseId'[s] = lease'[s]]_vars

\* the live keys that requests of session s created
KeysOf(s) == {k \in LiveKeys : kv[k].by = s}

\* C12 (one candidate key per session): the store holds at most one live key
\* created by a session, and that key is the key under the session's current
\* lease id.
C12_OneKeyPerSession ==
  \A s \in Sessions :
    /\ Cardinality(KeysOf(s)) <= 1
    /\ \A k \in KeysOf(s) : k = leaseId[s]

\* s is blocked on its watcher, and the key it watches is live
Blocked(s) ==
  /\ pc[s] = "w_wait"
  /\ watch[s].open /\ ~watch[s].fired
  /\ KeyExisted(watch[s].key)

\* C20 (no circular wait): a campaigning session blocks only on a key whose
\* creation revision is lower than its own leaderRevision, and no two sessions
\* wait each for the candidate key of the other.
C20_NoCircularWait ==
  /\ \A s \in Sessions :
       Blocked(s) => kv[watch[s].key].create < leaderRevision[s]
  /\ \A s, t \in Sessions :
       (/\ s # t /\ Blocked(s) /\ Blocked(t)
        /\ leaderKey[t] = FullKey(watch[s].key))
       => leaderKey[s] # FullKey(watch[t].key)

\* C18 (re-campaign keeps the place in line): when campaign(v2) finds the
\* session's key in the store, the transaction writes nothing, leaderRevision
\* becomes the key's creation revision, proclaim is called exactly when the
\* stored value differs from v2, and its put keeps the key set and the key's
\* creation revision and leaves the value v2.
C18_RecampaignKeepsPlace ==
  [][\A s \in Sessions :
       /\ (pc[s] = "c_txn" /\ pc'[s] = "c_cont" /\ ~arg'[s].succeeded)
          => /\ kv' = kv /\ rev' = rev
             /\ arg'[s].kvcreate = kv[arg[s].key].create
             /\ arg'[s].kvcreate > 0
             /\ arg'[s].kvvalue = kv[arg[s].key].value
       /\ (pc[s] = "c_cont" /\ pc'[s] # "c_cont" /\ ~arg[s].succeeded)
          => /\ leaderRevision'[s] = arg[s].kvcreate
             /\ kv' = kv /\ rev' = rev
             /\ pc'[s] = (IF arg[s].kvvalue # arg[s].value
                          THEN "cp_txn" ELSE "w_query")
       /\ (pc[s] = "cp_txn" /\ pc'[s] = "w_query")
          => /\ LiveKeys' = LiveKeys
             /\ kv'[arg[s].key].create = kv[arg[s].key].create
             /\ kv'[arg[s].key].create = leaderRevision'[s]
             /\ kv'[arg[s].key].value = arg[s].value]_vars

\* C18: a second campaign has found the session's key with another value and
\* has recorded the key's creation revision, which is not the store's revision
C18_Witness ==
  \E s \in Sessions :
    /\ pc[s] = "cp_txn"
    /\ arg[s].key = leaseId[s] /\ leaseId[s] # NoId
    /\ kv[arg[s].key].create = leaderRevision[s]
    /\ leaderRevision[s] < rev

\* the head of the list of keys of s has been dealt with: its read found it
\* absent, or its watcher reported the deletion and has been cancelled
Handled(s) ==
  \/ pc[s] = "w_get" /\ ~KeyExisted(Head(todo[s]))
  \/ pc[s] = "w_cancel" /\ arg[s].err = "" /\ watch[s].key = Head(todo[s])

\* C19 (waitForDeletes): the keys are taken in list order, the list moves on
\* only when its head was found absent by the read or reported deleted by the
\* watcher, a watcher is opened on the head only and never on a key the read
\* found absent, the wait resolves after the last key was dealt with, and an
\* empty list resolves in the query's own step.
C19_WaitForDeletes ==
  [][\A s \in Sessions :
       LET done == ret'[s].op = "campaign" /\ ret'[s].st = "ok" IN
       /\ (pc[s] = "w_query" /\ pc'[s] # "w_query")
          => IF Predecessors(arg[s].crev) = <<>>
             THEN done /\ rev' = rev /\ ~watch'[s].open
             ELSE ~done /\ todo'[s] = Predecessors(arg[s].crev)
       /\ (pc[s] \in {"w_get", "w_watch", "w_wait", "w_cancel"} /\ todo'[s] # todo[s])
          => /\ Handled(s)
             /\ IF Len(todo[s]) = 1 THEN done
                ELSE ~done /\ todo'[s] = Tail(todo[s]) /\ pc'[s] = "w_get"
       /\ (pc[s] \in {"w_get", "w_watch", "w_wait", "w_cancel"} /\ done)
          => Len(todo[s]) = 1 /\ Handled(s)
       /\ (pc[s] = "w_wait" /\ pc'[s] = "w_cancel" /\ arg'[s].err = "")
          => watch[s].fired /\ watch[s].key = Head(todo[s])
       /\ (watch'[s].open /\ ~watch[s].open)
          => /\ pc[s] = "w_watch"
             /\ watch'[s].key = Head(todo[s])
             /\ todo'[s] = todo[s]
       /\ (pc[s] = "w_get" /\ ~KeyExisted(Head(todo[s])))
          => pc'[s] # "w_watch" /\ ~watch'[s].open
       /\ (pc[s] = "w_get" /\ KeyExisted(Head(todo[s])))
          => todo'[s] = todo[s] /\ ~done]_vars

\* C19: the first key of a list of two has been dealt with, and the read of
\* the second key finds it absent
C19_Witness ==
  \E s \in Sessions :
    /\ pc[s] = "w_get"
    /\ Len(todo[s]) = 1
    /\ ~KeyExisted(Head(todo[s]))

\* s is the leader: its campaign has resolved, its key is live and no live key
\* was created before it
Leader(s) == Settled(s) /\ Lowest(s)

\* C13 (observer sequencing): with a leader listener registered, once a
\* session's campaign has resolved and its key is the first of the live keys,
\* the observer's latest leader notification comes to name that key, unless
\* the session gives up the key or the listeners are removed.
C13_ObserverSequencing ==
  \A s \in Sessions :
    (Leader(s) /\ obs.listeners > 0)
      ~> (obs.last = leaderKey[s] \/ ~Leader(s) \/ obs.listeners = 0)

\* C14 (a leader notification names the leader): the key the observer emits,
\* from the candidate query or from the first put event of the prefix watcher,
\* is live and no live key was created before it.
C14_NotificationNamesLeader ==
  [][(obs.pc \in {"o_query", "o_cancel"} /\ obs'.pc = "o_watch")
     => /\ obs'.last[2] \in LiveKeys'
        /\ \A k \in LiveKeys' : kv'[obs'.last[2]].create <= kv'[k].create]_vars

\* C15 (at most one observation loop): at most one call of observe() is past
\* the guard, and isObserving is false when none is.
C15_OneObservationLoop ==
  /\ obs.cycles <= 1
  /\ obs.cycles = 0 => ~obs.isObserving
  /\ obs.cycles = 0 <=> obs.pc = "off"

\* C15: a cycle is running after an error restarted the loop, with a second
\* listener registered
C15_Witness ==
  /\ obs.cycles = 1
  /\ obs.isObserving
  /\ obs.listeners = 2
  /\ obs.errors = 1

\* C16 (observer self-restart): the catch of an error gives one error
\* notification and starts a cycle; a cycle ended by the deletion of the leader
\* key is followed by a cycle when a leader listener is registered; the loop
\* ends only there, with no listener, or by an error whose catch is to come;
\* registering a leader listener starts it.
C16_ObserverRestarts ==
  [][/\ obs'.caught < obs.caught
        => obs'.errors = obs.errors + 1 /\ obs'.cycles > 0
     /\ (obs.pc = "o_cancel" /\ ~obs.prefix /\ ~obs.err /\ obs'.pc # "o_cancel"
         /\ obs'.caught = obs.caught)
        => (obs.listeners > 0 => obs'.cycles > 0)
     /\ (obs.cycles > 0 /\ obs'.cycles = 0)
        => \/ obs'.caught > obs.caught
           \/ obs.pc = "o_cancel" /\ ~obs.prefix /\ ~obs.err /\ obs.listeners = 0
     /\ obs'.listeners > obs.listeners => obs'.cycles > 0]_vars

\* C17 (watch release): a session's watcher is open only while its
\* waitForDelete waits for the event or for the answer to watcher.cancel(), the
\* observer's only while its prefix wait or its waitForDelete does; with no
\* campaign and no cycle in progress none is open.
C17_WatchRelease ==
  /\ \A s \in Sessions : watch[s].open => pc[s] \in {"w_wait", "w_cancel"}
  /\ obs.open => obs.pc \in {"o_pwait", "o_wait", "o_cancel"}
  /\ obs.cycles = 0 => ~obs.open

====
